---- MODULE Spec2Model ----
(***************************************************************************)
(* PublicTunnel: the relay server (internal/server/server.go), the wire    *)
(* protocol (internal/protocol/protocol.go) and the tunnel client          *)
(* (internal/client/client.go), as one state machine.                      *)
(*                                                                         *)
(* Strings (host names, subdomains) are sequences of one-character         *)
(* strings, so that the string operations of handleRequest and of the      *)
(* subdomain allocation are computed, not assumed.  Correlation ids are    *)
(* numbers; NoID stands for the empty string, the zero value of the ID     *)
(* field.                                                                  *)
(***************************************************************************)
EXTENDS Integers, Sequences, FiniteSets, TLC

----------------------------------------------------------------------------
(* Bounds of the model *)

\* control connections that are ever opened
NSess == 3
\* public HTTP requests that are ever received
NCalls == 2
\* frames a peer sends that the tunnel client's code would not send
MaxRogue == 1
\* connections that public requests are relayed over
RelaySess == 1
\* public requests of the specification of a single request
SoloCalls == 1
\* connections of the specification of the heartbeat
HbSess == 2
\* connections of the specification of two tunnels and one public request
IsoSess == 2
\* pings the heartbeat sender of one connection writes
MaxPings == 1
Sess == 1 .. NSess
Calls == 1 .. NCalls

----------------------------------------------------------------------------
(* Program constants *)

StatusOK == 200
StatusNotFound == 404
StatusInternalServerError == 500
StatusBadGateway == 502
StatusGatewayTimeout == 504

\* cap(respCh): make(chan *protocol.HttpResponsePayload, 1)
ChanCap == 1

\* the zero value of a string-typed id, and the absent *ClientConn
NoID == 0
NoSess == 0

TypeRegister == "REGISTER"
TypeRegisterResp == "REGISTER_RESP"
TypeHttpRequest == "HTTP_REQUEST"
TypeHttpResponse == "HTTP_RESPONSE"
TypeError == "ERROR"

----------------------------------------------------------------------------
(* Strings *)

EmptyStr == << >>

\* strings.HasSuffix
HasSuffix(s, suffix) ==
    /\ Len(s) >= Len(suffix)
    /\ SubSeq(s, Len(s) - Len(suffix) + 1, Len(s)) = suffix

\* strings.TrimSuffix
TrimSuffix(s, suffix) ==
    IF HasSuffix(s, suffix) THEN SubSeq(s, 1, Len(s) - Len(suffix)) ELSE s

\* strings.Index for a one-character separator: the 0-based index of its
\* first occurrence, -1 when there is none
Index(s, ch) ==
    IF \E i \in 1 .. Len(s) : s[i] = ch
    THEN (CHOOSE i \in 1 .. Len(s) : s[i] = ch /\ \A j \in 1 .. (i - 1) : s[j] # ch) - 1
    ELSE -1

----------------------------------------------------------------------------
(* Configuration: the -domain and -tunnel-domain flags *)

\* the flag defaults of the server command, "server.publictunnel.com" and
\* "publictunnel.com", written s.t and t
Flags ==
    { [domain |-> <<"s", ".", "t">>, tunnelDomain |-> <<"t">>] }

\* NewTunnelServer: an empty tunnel domain defaults to the domain
NewTunnelServer(domain, tunnelDomain) ==
    [Domain |-> domain,
     TunnelDomain |-> IF tunnelDomain = EmptyStr THEN domain ELSE tunnelDomain]

----------------------------------------------------------------------------
(* Message protocol: the Go structs have capitalised fields, the JSON      *)
(* objects on the wire the lower-case names of the struct tags.            *)

\* the nil header map and the nil byte slice
NoHeaders == [k \in {} |-> << >>]
NoBody == ""

\* json.Unmarshal into a struct: a field the object does not carry keeps
\* its zero value, and no error is reported to the caller that ignores it
Field(payload, name, zero) ==
    IF name \in DOMAIN payload THEN payload[name] ELSE zero

\* json.Marshal(ControlMessage{Type: TypeRegister, Payload: RegisterPayload})
EncodeRegister(reg) ==
    [wellFormed |-> TRUE, type |-> TypeRegister,
     payload |-> [subdomain |-> reg.Subdomain]]

\* regData, _ := json.Marshal(ctrl.Payload); json.Unmarshal(regData, &reg)
DecodeRegister(payload) ==
    [Subdomain |-> Field(payload, "subdomain", EmptyStr)]

EncodeRegisterResp(resp) ==
    [wellFormed |-> TRUE, type |-> TypeRegisterResp,
     payload |-> [subdomain |-> resp.Subdomain, url |-> resp.URL]]

EncodeHttpRequest(req) ==
    [wellFormed |-> TRUE, type |-> TypeHttpRequest,
     payload |-> [id |-> req.ID, method |-> req.Method, path |-> req.Path,
                  headers |-> req.Headers, body |-> req.Body]]

DecodeHttpRequest(payload) ==
    [ID |-> Field(payload, "id", NoID),
     Method |-> Field(payload, "method", ""),
     Path |-> Field(payload, "path", ""),
     Headers |-> Field(payload, "headers", NoHeaders),
     Body |-> Field(payload, "body", NoBody)]

EncodeHttpResponse(resp) ==
    [wellFormed |-> TRUE, type |-> TypeHttpResponse,
     payload |-> [id |-> resp.ID, status |-> resp.Status,
                  headers |-> resp.Headers, body |-> resp.Body]]

DecodeHttpResponse(payload) ==
    [ID |-> Field(payload, "id", NoID),
     Status |-> Field(payload, "status", 0),
     Headers |-> Field(payload, "headers", NoHeaders),
     Body |-> Field(payload, "body", NoBody)]

\* a payload of no known shape, and a message that is no JSON envelope
JunkPayload == [junk |-> TRUE]
Garbage == [wellFormed |-> FALSE, type |-> "", payload |-> JunkPayload]

\* no message yet, and the message of a ReadMessage that returned an error
NoMessage == [wellFormed |-> FALSE, type |-> "(none)", payload |-> JunkPayload]
ReadFailed == [wellFormed |-> FALSE, type |-> "(read error)", payload |-> JunkPayload]

----------------------------------------------------------------------------
(* Inputs *)

\* the subdomains a client asks for by name; a Register payload that carries
\* none (see FirstMessages) asks for any
RequestedNames == { <<"a">>, <<"s">> }

\* uuid.New().String()[:8] and uuid.New().String()[:4]
RandomNames == { <<"r">> }
RandomSuffixes == { <<"x">>, <<"y">> }

\* the first message a peer sends on a new connection
FirstMessages ==
    { EncodeRegister([Subdomain |-> n]) : n \in RequestedNames }
    \cup { [wellFormed |-> TRUE, type |-> TypeRegister, payload |-> JunkPayload],
           [wellFormed |-> TRUE, type |-> TypeHttpResponse, payload |-> JunkPayload],
           Garbage }

\* Host headers of public requests
Hosts ==
    { <<"a", ".", "t">>, <<"s", ".", "t">>, <<"a", "-", "x", ".", "t", ":", "4">>,
      <<"o">> }

\* public requests: method, URL path, headers, body
Requests ==
    { [Method |-> "GET", Path |-> "/health", Headers |-> NoHeaders, Body |-> NoBody],
      [Method |-> "POST", Path |-> "/ws",
       Headers |-> [k \in {"Accept"} |-> <<"x", "y">>], Body |-> "ping"],
      [Method |-> "GET", Path |-> "/100%", Headers |-> NoHeaders, Body |-> NoBody] }

\* url.Parse, as http.NewRequest calls it on "http://localhost:<port>" + path:
\* a "%" that two hexadecimal digits do not follow is an invalid URL escape
ParseableURL(path) == path \notin {"/100%"}

\* the local service, as httpClient.Do sees it: it answers GET requests and
\* refuses the connection of any other
LocalService(req) ==
    IF req.Method = "GET"
    THEN [err |-> FALSE, StatusCode |-> StatusOK,
          Header |-> [k \in {"Content-Type"} |-> <<"j">>], Body |-> "{ok:true}"]
    ELSE [err |-> TRUE, StatusCode |-> 0, Header |-> NoHeaders, Body |-> NoBody]

\* fmt.Sprintf("Local request failed: %v", err)
LocalErrorText == "Local request failed"

----------------------------------------------------------------------------
(* State *)

VARIABLES
    Domain,        \* TunnelServer.Domain
    TunnelDomain,  \* TunnelServer.TunnelDomain
    clients,       \* TunnelServer.clients: subdomain -> connection (its session)
    pendingReqs,   \* TunnelServer.pendingReqs: id -> channel (the call that made it)
    sessPc,        \* where each handleWebSocket invocation stands
    sessSub,       \* its local variable subdomain
    sessFirst,     \* the first message it read, msg of the handshake
    sessCh,        \* its local variable ch, while it sends into it
    sessMsg,       \* its local variable httpResp
    connBroken,    \* the connection no longer carries data (peer gone, deadline passed)
    written,       \* per connection, the frames the server has written to it
    inbox,         \* per connection, the frames sent by the peer and not yet read
    answered,      \* per connection, the request frames the client has answered
    dropped,       \* per connection, the request frames whose task returned without answering
    rogue,         \* the frames peers have sent that the client code would not
    callPc,        \* where each handleRequest/proxyToClient invocation stands
    callHost,      \* r.Host
    callReq,       \* the public request
    callConn,      \* its local variable conn
    reqID,         \* its local variable reqID
    respCh,        \* the buffer of its channel respCh
    delivered,     \* whether anything was ever sent into its channel
    outcome,       \* what was rendered to the public caller
    pingPc,        \* per connection, where the ping goroutine of handleWebSocket stands
    pinged,        \* per connection, the pings written to it
    mu,            \* per end of the connection, the holder of its write mutex
    wpc            \* where each writer of the connection stands

sessVars == <<sessPc, sessSub, sessFirst, sessCh, sessMsg>>
wireVars == <<connBroken, written, inbox, answered, dropped, rogue>>
callVars == <<callPc, callHost, callReq, callConn, reqID, outcome>>
srvVars == <<Domain, TunnelDomain, clients, pendingReqs>>
pingVars == <<pingPc, pinged>>
lockVars == <<mu, wpc>>
auxVars == <<pingVars, lockVars>>
vars == <<srvVars, sessVars, wireVars, callVars, respCh, delivered, auxVars>>

\* the two ends of a control connection, each with its write mutex
\* (ClientConn.mu, TunnelClient.writeMu), and the code that writes to it
Ends == {"server", "client"}
Free == "free"
ServerWriters == {"ack", "ping", "call1", "call2"}
ClientWriters == {"register", "pong", "task1", "task2"}
Writers == ServerWriters \cup ClientWriters

NoOutcome ==
    [kind |-> "none", Status |-> 0, Headers |-> NoHeaders, Body |-> NoBody, ID |-> NoID]

NoRequest == [Method |-> "", Path |-> "", Headers |-> NoHeaders, Body |-> NoBody]

NoResponse == [ID |-> NoID, Status |-> 0, Headers |-> NoHeaders, Body |-> NoBody]

EmptyMap == [k \in {} |-> 0]

\* m[k] = v
MapSet(m, k, v) == [x \in DOMAIN m \cup {k} |-> IF x = k THEN v ELSE m[x]]

\* delete(m, k)
MapDelete(m, k) == [x \in DOMAIN m \ {k} |-> m[x]]

\* the state NewTunnelServer returns, before any connection or request
Init ==
    /\ \E f \in Flags :
          /\ Domain = NewTunnelServer(f.domain, f.tunnelDomain).Domain
          /\ TunnelDomain = NewTunnelServer(f.domain, f.tunnelDomain).TunnelDomain
    /\ clients = EmptyMap
    /\ pendingReqs = EmptyMap
    /\ sessPc = [s \in Sess |-> "idle"]
    /\ sessSub = [s \in Sess |-> EmptyStr]
    /\ sessFirst = [s \in Sess |-> NoMessage]
    /\ sessCh = [s \in Sess |-> 0]
    /\ sessMsg = [s \in Sess |-> NoResponse]
    /\ connBroken = [s \in Sess |-> FALSE]
    /\ written = [s \in Sess |-> << >>]
    /\ inbox = [s \in Sess |-> << >>]
    /\ answered = [s \in Sess |-> {}]
    /\ dropped = [s \in Sess |-> {}]
    /\ rogue = << >>
    /\ callPc = [c \in Calls |-> "idle"]
    /\ callHost = [c \in Calls |-> EmptyStr]
    /\ callReq = [c \in Calls |-> NoRequest]
    /\ callConn = [c \in Calls |-> NoSess]
    /\ reqID = [c \in Calls |-> NoID]
    /\ respCh = [c \in Calls |-> << >>]
    /\ delivered = [c \in Calls |-> FALSE]
    /\ outcome = [c \in Calls |-> NoOutcome]
    /\ pingPc = [s \in Sess |-> "off"]
    /\ pinged = [s \in Sess |-> 0]
    /\ mu = [e \in Ends |-> Free]
    /\ wpc = [w \in Writers |-> "idle"]

\* connections and requests are numbered in the order they come in
Opened(pc, n) == IF n = 1 THEN TRUE ELSE pc[n - 1] # "idle"

\* the connection of session s is open at the server's end
ConnOpen(s) == sessPc[s] \notin {"idle", "closed"}

\* the subdomain the Register payload of session s asked for
Requested(s) == DecodeRegister(sessFirst[s].payload).Subdomain

\* the session has bound a name and has not returned
Registered(s) == sessPc[s] \in {"ack", "read", "send"}

----------------------------------------------------------------------------
(* Server-side relay session: handleWebSocket *)

\* subdomain := reg.Subdomain; if subdomain == "" { subdomain = uuid...[:8] }
RequestedOrRandom(reg, random) ==
    IF reg.Subdomain = EmptyStr THEN random ELSE reg.Subdomain

\* the name bound under clientsMu: a taken name gets one random suffix
AllocName(subdomain, suffix) ==
    IF subdomain \in DOMAIN clients
    THEN subdomain \o <<"-">> \o suffix
    ELSE subdomain

\* the first read of a connection fails: handleWebSocket returns (conn.Close)
HandshakeReadError(s) ==
    /\ sessPc[s] = "idle"
    /\ Opened(sessPc, s)
    /\ sessPc' = [sessPc EXCEPT ![s] = "closed"]
    /\ sessFirst' = [sessFirst EXCEPT ![s] = ReadFailed]
    /\ UNCHANGED <<auxVars, srvVars, sessSub, sessCh, sessMsg, wireVars, callVars,
                   respCh, delivered>>

\* a handshake that takes any well-formed envelope for a registration
HandshakeAnyType(s, msg, random) ==
    /\ sessPc[s] = "idle"
    /\ Opened(sessPc, s)
    /\ sessFirst' = [sessFirst EXCEPT ![s] = msg]
    /\ IF ~msg.wellFormed
       THEN /\ sessPc' = [sessPc EXCEPT ![s] = "closed"]
            /\ UNCHANGED sessSub
       ELSE LET reg == DecodeRegister(msg.payload) IN
            /\ sessPc' = [sessPc EXCEPT ![s] = "alloc"]
            /\ sessSub' = [sessSub EXCEPT ![s] = RequestedOrRandom(reg, random)]
    /\ UNCHANGED <<auxVars, srvVars, sessCh, sessMsg, wireVars, callVars, respCh, delivered>>

\* Upgrade, the first ReadMessage, the envelope and the payload decoding
Handshake(s, msg, random) ==
    /\ sessPc[s] = "idle"
    /\ Opened(sessPc, s)
    /\ sessFirst' = [sessFirst EXCEPT ![s] = msg]
    /\ IF ~msg.wellFormed \/ msg.type # TypeRegister
       THEN /\ sessPc' = [sessPc EXCEPT ![s] = "closed"]
            /\ UNCHANGED sessSub
       ELSE LET reg == DecodeRegister(msg.payload) IN
            /\ sessPc' = [sessPc EXCEPT ![s] = "alloc"]
            /\ sessSub' = [sessSub EXCEPT ![s] = RequestedOrRandom(reg, random)]
    /\ UNCHANGED <<auxVars, srvVars, sessCh, sessMsg, wireVars, callVars, respCh, delivered>>

\* clientsMu.Lock(); the collision check; s.clients[subdomain] = client; Unlock()
Allocate(s, suffix) ==
    /\ sessPc[s] = "alloc"
    /\ LET name == AllocName(sessSub[s], suffix) IN
          /\ sessSub' = [sessSub EXCEPT ![s] = name]
          /\ clients' = MapSet(clients, name, s)
    /\ sessPc' = [sessPc EXCEPT ![s] = "ack"]
    /\ UNCHANGED <<auxVars, Domain, TunnelDomain, pendingReqs, sessFirst, sessCh, sessMsg,
                   wireVars, callVars, respCh, delivered>>

\* fmt.Sprintf("%s://%s.%s", scheme, subdomain, s.TunnelDomain)
PublicURL(scheme, subdomain) ==
    scheme \o <<":", "/", "/">> \o subdomain \o <<".">> \o TunnelDomain

\* client.WriteJSON(resp), its error ignored; the ping goroutine is started
\* and the read loop begins
SendAck(s, scheme) ==
    /\ sessPc[s] = "ack"
    /\ \/ written' = [written EXCEPT ![s] = Append(@,
              EncodeRegisterResp([Subdomain |-> sessSub[s],
                                  URL |-> PublicURL(scheme, sessSub[s])]))]
       \/ connBroken[s] /\ UNCHANGED written
    /\ sessPc' = [sessPc EXCEPT ![s] = "read"]
    /\ pingPc' = [pingPc EXCEPT ![s] = "on"]
    /\ UNCHANGED <<pinged, lockVars, srvVars, sessSub, sessFirst, sessCh, sessMsg, connBroken, inbox,
                   answered, dropped, rogue, callVars, respCh, delivered>>

\* a dispatch that hands a response to whichever slot is waiting
AnyPendingLookup(id) ==
    IF DOMAIN pendingReqs # {}
    THEN [ok |-> TRUE, ch |-> pendingReqs[CHOOSE k \in DOMAIN pendingReqs : TRUE]]
    ELSE [ok |-> FALSE, ch |-> 0]

\* s.reqsMu.RLock(); ch, ok := s.pendingReqs[httpResp.ID]; RUnlock()
PendingLookup(id) ==
    IF id \in DOMAIN pendingReqs
    THEN [ok |-> TRUE, ch |-> pendingReqs[id]]
    ELSE [ok |-> FALSE, ch |-> 0]

\* one turn of the read loop on a message that was read
ReadMessage(s) ==
    /\ sessPc[s] = "read"
    /\ inbox[s] # << >>
    /\ LET msg == Head(inbox[s])
           httpResp == DecodeHttpResponse(msg.payload)
           found == PendingLookup(httpResp.ID)
       IN  IF msg.wellFormed /\ msg.type = TypeHttpResponse /\ found.ok
           THEN /\ sessPc' = [sessPc EXCEPT ![s] = "send"]
                /\ sessCh' = [sessCh EXCEPT ![s] = found.ch]
                /\ sessMsg' = [sessMsg EXCEPT ![s] = httpResp]
           ELSE UNCHANGED <<sessPc, sessCh, sessMsg>>
    /\ inbox' = [inbox EXCEPT ![s] = Tail(@)]
    /\ UNCHANGED <<auxVars, srvVars, sessSub, sessFirst, connBroken, written, answered, dropped, rogue,
                   callVars, respCh, delivered>>

\* ch <- &httpResp: possible while the buffer has room
ChannelSend(s) ==
    /\ sessPc[s] = "send"
    /\ Len(respCh[sessCh[s]]) < ChanCap
    /\ respCh' = [respCh EXCEPT ![sessCh[s]] = Append(@, sessMsg[s])]
    /\ delivered' = [delivered EXCEPT ![sessCh[s]] = TRUE]
    /\ sessPc' = [sessPc EXCEPT ![s] = "read"]
    /\ sessCh' = [sessCh EXCEPT ![s] = 0]
    /\ sessMsg' = [sessMsg EXCEPT ![s] = NoResponse]
    /\ UNCHANGED <<auxVars, srvVars, sessSub, sessFirst, wireVars, callVars>>

\* a disconnect that leaves the binding in the registry
ReadErrorKeepsBinding(s) ==
    /\ sessPc[s] = "read"
    /\ connBroken[s]
    /\ sessPc' = [sessPc EXCEPT ![s] = "closed"]
    /\ inbox' = [inbox EXCEPT ![s] = << >>]
    /\ UNCHANGED <<auxVars, srvVars, sessSub, sessFirst, sessCh, sessMsg, connBroken, written,
                   answered, dropped, rogue, callVars, respCh, delivered>>

\* ReadMessage fails: delete(s.clients, subdomain), break, conn.Close()
ReadError(s) ==
    /\ sessPc[s] = "read"
    /\ connBroken[s]
    /\ clients' = MapDelete(clients, sessSub[s])
    /\ sessPc' = [sessPc EXCEPT ![s] = "closed"]
    /\ inbox' = [inbox EXCEPT ![s] = << >>]
    /\ UNCHANGED <<auxVars, Domain, TunnelDomain, pendingReqs, sessSub, sessFirst, sessCh,
                   sessMsg, connBroken, written, answered, dropped, rogue, callVars,
                   respCh, delivered>>

\* for range ticker.C: the ping is written (WriteMessage returns nil)
Ping(s) ==
    /\ pingPc[s] = "on"
    /\ sessPc[s] \in {"read", "send"}
    /\ pinged[s] < MaxPings
    /\ pinged' = [pinged EXCEPT ![s] = @ + 1]
    /\ UNCHANGED <<srvVars, sessVars, wireVars, callVars, respCh, delivered, pingPc,
                   lockVars>>

\* for range ticker.C: WriteMessage returns an error (the write deadline has
\* passed, or the connection is broken or closed); the mutex is released and
\* the goroutine returns
PingFails(s) ==
    /\ pingPc[s] = "on"
    /\ sessPc[s] \in {"read", "send", "closed"}
    /\ pingPc' = [pingPc EXCEPT ![s] = "stopped"]
    /\ UNCHANGED <<srvVars, sessVars, wireVars, callVars, respCh, delivered, pinged,
                   lockVars>>

----------------------------------------------------------------------------
(* Ingress router: handleRequest and proxyToClient *)

Localhost == <<"l">>

\* host := r.Host with the port removed
StripPort(host) ==
    IF Index(host, ":") # -1 THEN SubSeq(host, 1, Index(host, ":")) ELSE host

\* where handleRequest sends a request: the registration endpoint, the status
\* page, proxyToClient with a subdomain, or the final 404
Route(rawHost, path) ==
    LET host == StripPort(rawHost) IN
    IF host = Domain \/ host = TunnelDomain \/ host = Localhost
    THEN [to |-> IF path = "/ws" THEN "ws" ELSE "page", subdomain |-> EmptyStr]
    ELSE IF HasSuffix(host, <<".">> \o TunnelDomain)
         THEN [to |-> "proxy", subdomain |-> TrimSuffix(host, <<".">> \o TunnelDomain)]
         ELSE [to |-> "notfound", subdomain |-> EmptyStr]

\* http.Error(w, text, code) and the status page
Rendered(kind, status, body) ==
    [kind |-> kind, Status |-> status, Headers |-> NoHeaders, Body |-> body, ID |-> NoID]

\* a relay that copies headers and body and always answers 200
RenderStatusOK(resp) ==
    [kind |-> "relay", Status |-> StatusOK, Headers |-> resp.Headers,
     Body |-> resp.Body, ID |-> resp.ID]

\* the headers, status and body proxyToClient copies from the response it received
RenderResponse(resp) ==
    [kind |-> "relay", Status |-> resp.Status, Headers |-> resp.Headers,
     Body |-> resp.Body, ID |-> resp.ID]

\* the payload proxyToClient builds from the public request
RequestPayload(id, r) ==
    [ID |-> id, Method |-> r.Method, Path |-> r.Path, Headers |-> r.Headers,
     Body |-> r.Body]

\* a write failure answered as a bad gateway
WriteFailureAsBadGateway == StatusBadGateway

\* the status proxyToClient answers with when WriteJSON fails
WriteFailureStatus == StatusInternalServerError

\* a timeout answered as a bad gateway
TimeoutAsBadGateway == StatusBadGateway

\* the status proxyToClient answers with when the 30 s timer fires first
TimeoutStatus == StatusGatewayTimeout

\* a router that answers a lookup miss like a failed relay
UnrelayedAsBadGateway(to) ==
    CASE to = "ws" -> Rendered("ws", 0, NoBody)
      [] to = "page" -> Rendered("page", StatusOK, "PublicTunnel Server is running")
      [] to = "notfound" -> Rendered("notfound", StatusNotFound, "Not Found")
      [] OTHER -> Rendered("tunnel404", StatusBadGateway, "Tunnel not found")

\* the answer to a request that is not relayed
Unrelayed(to) ==
    CASE to = "ws" -> Rendered("ws", 0, NoBody)
      [] to = "page" -> Rendered("page", StatusOK, "PublicTunnel Server is running")
      [] to = "notfound" -> Rendered("notfound", StatusNotFound, "Not Found")
      [] OTHER -> Rendered("tunnel404", StatusNotFound, "Tunnel not found")

\* s.clientsMu.RLock(); conn, ok := s.clients[subdomain]; RUnlock()
Lookup(subdomain) ==
    IF subdomain \in DOMAIN clients
    THEN [ok |-> TRUE, conn |-> clients[subdomain]]
    ELSE [ok |-> FALSE, conn |-> NoSess]

\* what handleRequest does with a request: it goes on to relay it over the
\* connection the lookup of proxyToClient found, or it answers it itself
ProxyOrAnswer(host, path) ==
    LET route == Route(host, path) IN
    IF route.to = "proxy" /\ Lookup(route.subdomain).ok
    THEN [relayed |-> TRUE, conn |-> Lookup(route.subdomain).conn, answer |-> NoOutcome]
    ELSE [relayed |-> FALSE, conn |-> NoSess, answer |-> Unrelayed(route.to)]

\* handleRequest up to and including the registry lookup of proxyToClient
Arrive(c, host, r) ==
    /\ callPc[c] = "idle"
    /\ Opened(callPc, c)
    /\ callHost' = [callHost EXCEPT ![c] = host]
    /\ callReq' = [callReq EXCEPT ![c] = r]
    /\ LET todo == ProxyOrAnswer(host, r.Path) IN
       IF todo.relayed
       THEN /\ callConn' = [callConn EXCEPT ![c] = todo.conn]
            /\ callPc' = [callPc EXCEPT ![c] = "found"]
            /\ UNCHANGED outcome
       ELSE /\ outcome' = [outcome EXCEPT ![c] = todo.answer]
            /\ callPc' = [callPc EXCEPT ![c] = "done"]
            /\ UNCHANGED callConn
    /\ UNCHANGED <<auxVars, srvVars, sessVars, wireVars, reqID, respCh, delivered>>

\* uuid.New().String(): an id no other call gets
NewID(c) == c

\* reqID := uuid.New().String(); respCh := make(chan, 1); pendingReqs[reqID] = respCh
CreateSlot(c) ==
    /\ callPc[c] = "found"
    /\ reqID' = [reqID EXCEPT ![c] = NewID(c)]
    /\ pendingReqs' = MapSet(pendingReqs, NewID(c), c)
    /\ callPc' = [callPc EXCEPT ![c] = "write"]
    /\ UNCHANGED <<auxVars, Domain, TunnelDomain, clients, sessVars, wireVars, callHost, callReq,
                   callConn, outcome, respCh, delivered>>

\* conn.WriteJSON(ctrlMsg) returns nil
WriteRequest(c) ==
    /\ callPc[c] = "write"
    /\ ConnOpen(callConn[c])
    /\ written' = [written EXCEPT ![callConn[c]] =
                      Append(@, EncodeHttpRequest(RequestPayload(reqID[c], callReq[c])))]
    /\ callPc' = [callPc EXCEPT ![c] = "wait"]
    /\ UNCHANGED <<auxVars, srvVars, sessVars, connBroken, inbox, answered, dropped, rogue,
                   callHost, callReq, callConn, reqID, outcome, respCh, delivered>>

\* a write failure that returns before the slot's removal is arranged
WriteRequestFailsNoCleanup(c) ==
    /\ callPc[c] = "write"
    /\ ~ConnOpen(callConn[c]) \/ connBroken[callConn[c]]
    /\ outcome' = [outcome EXCEPT ![c] =
                      Rendered("writefail", WriteFailureStatus,
                               "Failed to send request to client")]
    /\ callPc' = [callPc EXCEPT ![c] = "done"]
    /\ UNCHANGED <<auxVars, srvVars, sessVars, wireVars, callHost, callReq, callConn, reqID,
                   respCh, delivered>>

\* conn.WriteJSON(ctrlMsg) returns an error: the connection is closed or broken
WriteRequestFails(c) ==
    /\ callPc[c] = "write"
    /\ ~ConnOpen(callConn[c]) \/ connBroken[callConn[c]]
    /\ outcome' = [outcome EXCEPT ![c] =
                      Rendered("writefail", WriteFailureStatus,
                               "Failed to send request to client")]
    /\ callPc' = [callPc EXCEPT ![c] = "defer"]
    /\ UNCHANGED <<auxVars, srvVars, sessVars, wireVars, callHost, callReq, callConn, reqID,
                   respCh, delivered>>

\* a wait that keeps receiving after it has answered
ReceiveAgain(c) ==
    /\ callPc[c] \in {"wait", "defer"}
    /\ respCh[c] # << >>
    /\ outcome' = [outcome EXCEPT ![c] = RenderResponse(Head(respCh[c]))]
    /\ respCh' = [respCh EXCEPT ![c] = Tail(@)]
    /\ callPc' = [callPc EXCEPT ![c] = "defer"]
    /\ UNCHANGED <<auxVars, srvVars, sessVars, wireVars, callHost, callReq, callConn, reqID,
                   delivered>>

\* select: case resp := <-respCh
Receive(c) ==
    /\ callPc[c] = "wait"
    /\ respCh[c] # << >>
    /\ outcome' = [outcome EXCEPT ![c] = RenderResponse(Head(respCh[c]))]
    /\ respCh' = [respCh EXCEPT ![c] = Tail(@)]
    /\ callPc' = [callPc EXCEPT ![c] = "defer"]
    /\ UNCHANGED <<auxVars, srvVars, sessVars, wireVars, callHost, callReq, callConn, reqID,
                   delivered>>

\* select: case <-time.After(30 * time.Second)
Timeout(c) ==
    /\ callPc[c] = "wait"
    /\ outcome' = [outcome EXCEPT ![c] = Rendered("timeout", TimeoutStatus, "Gateway timeout")]
    /\ callPc' = [callPc EXCEPT ![c] = "defer"]
    /\ UNCHANGED <<auxVars, srvVars, sessVars, wireVars, callHost, callReq, callConn, reqID,
                   respCh, delivered>>

\* the deferred delete(s.pendingReqs, reqID); proxyToClient returns
DeferredDelete(c) ==
    /\ callPc[c] = "defer"
    /\ pendingReqs' = MapDelete(pendingReqs, reqID[c])
    /\ callPc' = [callPc EXCEPT ![c] = "done"]
    /\ UNCHANGED <<auxVars, Domain, TunnelDomain, clients, sessVars, wireVars, callHost,
                   callReq, callConn, reqID, outcome, respCh, delivered>>

----------------------------------------------------------------------------
(* Client-side relay session and the peer in general *)

\* the request frames of connection s that no task of the client has handled
Unanswered(s) ==
    { i \in 1 .. Len(written[s]) :
         written[s][i].type = TypeHttpRequest /\ i \notin answered[s] \cup dropped[s] }

\* http.NewRequest(req.Method, localURL, ...): whether it returns an error
NewRequestFails(req) == ~ParseableURL(req.Path)

\* TunnelClient.handleRequest: the payload built from the outcome of the local call
HandleRequest(req, local) ==
    IF local.err
    THEN [ID |-> req.ID, Status |-> StatusBadGateway, Headers |-> NoHeaders,
          Body |-> LocalErrorText]
    ELSE [ID |-> req.ID, Status |-> local.StatusCode, Headers |-> local.Header,
          Body |-> local.Body]

\* the answer of the client to the i-th frame written to connection s
ClientAnswer(s, i) ==
    LET req == DecodeHttpRequest(written[s][i].payload) IN
    HandleRequest(req, LocalService(req))

\* the read loop decodes a request frame, the spawned task calls the local
\* service and sendResponse writes the answer
ClientRespond(s, i) ==
    /\ ConnOpen(s) /\ ~connBroken[s]
    /\ i \in Unanswered(s)
    /\ ~NewRequestFails(DecodeHttpRequest(written[s][i].payload))
    /\ inbox' = [inbox EXCEPT ![s] = Append(@, EncodeHttpResponse(ClientAnswer(s, i)))]
    /\ answered' = [answered EXCEPT ![s] = @ \cup {i}]
    /\ UNCHANGED <<auxVars, srvVars, sessVars, connBroken, written, dropped, rogue, callVars,
                   respCh, delivered>>

\* the read loop decodes a request frame and the spawned task returns where
\* http.NewRequest fails: it logs and writes nothing
ClientGivesUp(s, i) ==
    /\ ConnOpen(s) /\ ~connBroken[s]
    /\ i \in Unanswered(s)
    /\ NewRequestFails(DecodeHttpRequest(written[s][i].payload))
    /\ dropped' = [dropped EXCEPT ![s] = @ \cup {i}]
    /\ UNCHANGED <<auxVars, srvVars, sessVars, connBroken, written, inbox, answered, rogue,
                   callVars, respCh, delivered>>

\* frames a peer can send that the client code never would: a response with
\* an id of its choosing, a response with a payload of no known shape, and a
\* message that is no envelope
RogueFrames ==
    { EncodeHttpResponse([ID |-> id, Status |-> StatusOK, Headers |-> NoHeaders,
                          Body |-> "rogue"]) : id \in 1 .. NCalls }
    \cup { [wellFormed |-> TRUE, type |-> TypeHttpResponse, payload |-> JunkPayload],
           Garbage }

PeerSends(s, msg) ==
    /\ Registered(s) /\ ~connBroken[s]
    /\ Len(rogue) < MaxRogue
    /\ rogue' = Append(rogue, [conn |-> s, msg |-> msg])
    /\ inbox' = [inbox EXCEPT ![s] = Append(@, msg)]
    /\ UNCHANGED <<auxVars, srvVars, sessVars, connBroken, written, answered, dropped, callVars, respCh,
                   delivered>>

\* the peer goes away, the network fails or the read deadline passes
BreakConn(s) ==
    /\ ConnOpen(s) /\ ~connBroken[s]
    /\ connBroken' = [connBroken EXCEPT ![s] = TRUE]
    /\ UNCHANGED <<auxVars, srvVars, sessVars, written, inbox, answered, dropped, rogue, callVars,
                   respCh, delivered>>

----------------------------------------------------------------------------
(* Writes to one control connection, at the grain of the write mutexes *)

\* the end of the connection that writer w writes to
End(w) == IF w \in ServerWriters THEN "server" ELSE "client"

\* a ping loop that writes without taking the mutex
PingWithoutMutex(w) == w \notin {"register", "ping"}

\* whether the code of writer w locks the mutex of its end around the write:
\* ClientConn.WriteJSON (ack, request frames), the ping loop, the ping
\* handler and sendResponse do; the register frame is written by
\* conn.WriteJSON directly
UsesMutex(w) == w # "register"

\* program order: the client writes its register frame first; the server
\* binds and acknowledges once it has read it; an ingress call can find the
\* binding as soon as it is made (before the acknowledgement is written);
\* the ping loop starts after the acknowledgement; the client answers a
\* ping and a request frame once the server has written it
CanStart(w) ==
    CASE w = "register" -> TRUE
      [] w = "ack" -> wpc["register"] = "done"
      [] w \in {"call1", "call2"} -> wpc["ack"] # "idle"
      [] w = "ping" -> wpc["ack"] = "done"
      [] w = "pong" -> wpc["ping"] = "done"
      [] w = "task1" -> wpc["call1"] = "done"
      [] w = "task2" -> wpc["call2"] = "done"

\* the code of writer w is reached
StartWrite(w) ==
    /\ wpc[w] = "idle"
    /\ CanStart(w)
    /\ wpc' = [wpc EXCEPT ![w] = "ready"]
    /\ UNCHANGED <<srvVars, sessVars, wireVars, callVars, respCh, delivered, pingVars, mu>>

\* mu.Lock() where the code has it, SetWriteDeadline, and the write begins
Lock(w) ==
    /\ wpc[w] = "ready"
    /\ UsesMutex(w) => mu[End(w)] = Free
    /\ mu' = IF UsesMutex(w) THEN [mu EXCEPT ![End(w)] = w] ELSE mu
    /\ wpc' = [wpc EXCEPT ![w] = "writing"]
    /\ UNCHANGED <<srvVars, sessVars, wireVars, callVars, respCh, delivered, pingVars>>

\* the write returns, and mu.Unlock() where the code has it
Unlock(w) ==
    /\ wpc[w] = "writing"
    /\ mu' = IF UsesMutex(w) THEN [mu EXCEPT ![End(w)] = Free] ELSE mu
    /\ wpc' = [wpc EXCEPT ![w] = "done"]
    /\ UNCHANGED <<srvVars, sessVars, wireVars, callVars, respCh, delivered, pingVars>>

----------------------------------------------------------------------------
(* Specifications *)

Schemes == { <<"h">> }

\* the connections in SS come, register and go
SessionNext(SS) ==
    \/ \E s \in SS : HandshakeReadError(s)
    \/ \E s \in SS, msg \in FirstMessages, random \in RandomNames : Handshake(s, msg, random)
    \/ \E s \in SS, suffix \in RandomSuffixes : Allocate(s, suffix)
    \/ \E s \in SS, scheme \in Schemes : SendAck(s, scheme)
    \/ \E s \in SS : ReadError(s)
    \/ \E s \in SS : BreakConn(s)

\* the public requests in CC are relayed over the connections in SS: the
\* ingress calls, the read loops of the sessions, the clients and other peers
RelayNext(SS, CC) ==
    \/ \E c \in CC, host \in Hosts, r \in Requests : Arrive(c, host, r)
    \/ \E c \in CC : CreateSlot(c)
    \/ \E c \in CC : WriteRequest(c)
    \/ \E c \in CC : WriteRequestFails(c)
    \/ \E c \in CC : Receive(c)
    \/ \E c \in CC : Timeout(c)
    \/ \E c \in CC : DeferredDelete(c)
    \/ \E s \in SS : ReadMessage(s)
    \/ \E s \in SS : ChannelSend(s)
    \/ \E s \in SS, msg \in RogueFrames : PeerSends(s, msg)
    \/ \E s \in SS, i \in 1 .. (NCalls + 1) : ClientRespond(s, i)
    \/ \E s \in SS, i \in 1 .. (NCalls + 1) : ClientGivesUp(s, i)

\* connections only: handshake, allocation, acknowledgement, disconnect
RegistryNext == SessionNext(Sess)

SpecRegistry == Init /\ [][RegistryNext]_vars

\* public requests relayed over the first RelaySess connections
Next == SessionNext(1 .. RelaySess) \/ RelayNext(1 .. RelaySess, Calls)

Spec == Init /\ [][Next]_vars

\* the scheduler runs every goroutine that can take a step, and the timer
\* of time.After fires: a call that waits receives or times out, and a call
\* that has answered runs its deferred function
FairSpec ==
    /\ Spec
    /\ \A c \in Calls : WF_vars(Receive(c) \/ Timeout(c))
    /\ \A c \in Calls : WF_vars(DeferredDelete(c))

\* one public request relayed over the first RelaySess connections
SoloNext == SessionNext(1 .. RelaySess) \/ RelayNext(1 .. RelaySess, 1 .. SoloCalls)

SpecSolo == Init /\ [][SoloNext]_vars

\* the scheduler runs every goroutine that can take a step: besides the
\* ingress calls, a session writes its acknowledgement, its read loop takes
\* the next message or the read error (a broken connection yields the error
\* once what was buffered is read), and a channel send that can proceed does
FairSolo ==
    /\ SpecSolo
    /\ \A c \in 1 .. SoloCalls : WF_vars(Receive(c) \/ Timeout(c))
    /\ \A c \in 1 .. SoloCalls : WF_vars(DeferredDelete(c))
    /\ \A s \in 1 .. RelaySess : WF_vars(\E scheme \in Schemes : SendAck(s, scheme))
    /\ \A s \in 1 .. RelaySess : WF_vars(ReadMessage(s) \/ ReadError(s))
    /\ \A s \in 1 .. RelaySess : WF_vars(ChannelSend(s))

\* one public request while IsoSess clients are connected
IsolationNext == SessionNext(1 .. IsoSess) \/ RelayNext(1 .. IsoSess, 1 .. SoloCalls)

SpecIsolation == Init /\ [][IsolationNext]_vars

\* connections with their heartbeat sender, no public request
HeartbeatNext ==
    \/ SessionNext(1 .. HbSess)
    \/ \E s \in 1 .. HbSess : Ping(s)
    \/ \E s \in 1 .. HbSess : PingFails(s)

SpecHeartbeat == Init /\ [][HeartbeatNext]_vars

\* the writers of one control connection
WritesNext ==
    \/ \E w \in Writers : StartWrite(w)
    \/ \E w \in Writers : Lock(w)
    \/ \E w \in Writers : Unlock(w)

SpecWrites == Init /\ [][WritesNext]_vars

----------------------------------------------------------------------------
(* Properties *)

\* the request frame of call c has been written to a connection
FrameWritten(c) ==
    /\ reqID[c] # NoID
    /\ \E s \in Sess : \E i \in 1 .. Len(written[s]) :
          /\ written[s][i].type = TypeHttpRequest
          /\ DecodeHttpRequest(written[s][i].payload).ID = reqID[c]

\* the call has created its slot and has not returned
InProgress(c) == callPc[c] \in {"write", "wait", "defer"}

\* C1 (correlation): whatever is sent into the channel of an ingress call,
\* and whatever the call renders, carries the id the call generated; no
\* response reaches the channel of another call.
Correlation ==
    /\ \A c \in Calls : \A i \in 1 .. Len(respCh[c]) : respCh[c][i].ID = reqID[c]
    /\ \A s \in Sess : sessPc[s] = "send" => sessMsg[s].ID = reqID[sessCh[s]]
    /\ \A c \in Calls : outcome[c].kind = "relay" =>
          reqID[c] # NoID /\ outcome[c].ID = reqID[c]

\* two calls in flight over one connection, the later one answered first
CorrelationWitness ==
    /\ callPc[1] = "wait" /\ ~delivered[1]
    /\ callConn[2] = callConn[1]
    /\ outcome[2].kind = "relay" /\ outcome[2].ID = reqID[2]

\* the session has sent its RegisterAck and has not returned
Acked(s) == sessPc[s] \in {"read", "send"}

\* C2 as stated (registry exclusivity): of the live sessions that asked for
\* the same name at most one holds exactly that name, and no two sessions
\* that are registered, acknowledged and not closed hold the same name.
RegistryExclusive ==
    /\ \A s, t \in Sess :
          (s # t /\ Registered(s) /\ Registered(t)
           /\ Requested(s) # EmptyStr /\ Requested(s) = Requested(t))
          => ~(sessSub[s] = Requested(s) /\ sessSub[t] = Requested(t))
    /\ \A s, t \in Sess :
          (s # t /\ Acked(s) /\ Acked(t)) => sessSub[s] # sessSub[t]

\* a slot still waits for its first response under this id
Awaited(id) ==
    \E c \in Calls : reqID[c] = id /\ callPc[c] \in {"write", "wait"} /\ ~delivered[c]

\* session s takes a message off its connection in this step
Reads(s) ==
    /\ sessPc[s] = "read" /\ sessPc'[s] # "closed"
    /\ inbox[s] # << >> /\ inbox'[s] = Tail(inbox[s])

TimeoutBound ==
    /\ [](\A c \in Calls :
            (callPc[c] = "done" /\ FrameWritten(c) /\ ~delivered[c])
            => outcome[c].Status = StatusGatewayTimeout)
    /\ \A c \in Calls :
          FrameWritten(c) ~>
             (delivered[c] \/ (callPc[c] = "done" /\ outcome[c].Status = StatusGatewayTimeout))

\* a frame was written, nothing came back, and the call has returned
TimeoutBoundWitness ==
    \E c \in Calls :
       /\ callPc[c] = "done" /\ FrameWritten(c) /\ ~delivered[c]
       /\ outcome[c].kind = "timeout" /\ pendingReqs = EmptyMap

\* C5 (guaranteed slot cleanup): the keys of the pending-request table are
\* exactly the ids of the calls that have created their slot and have not
\* returned; a call that has returned, whatever its outcome, has no entry,
\* and the table is empty once every call has returned.
SlotCleanup ==
    /\ DOMAIN pendingReqs = { reqID[c] : c \in { d \in Calls : InProgress(d) } }
    /\ \A c \in Calls : callPc[c] = "done" => reqID[c] \notin DOMAIN pendingReqs
    /\ (\A c \in Calls : callPc[c] \in {"idle", "done"}) => pendingReqs = EmptyMap

\* one call has returned after a write failure and the other after a timeout
SlotCleanupWitness ==
    /\ callPc[1] = "done" /\ outcome[1].kind = "writefail"
    /\ callPc[2] = "done" /\ outcome[2].kind = "timeout"
    /\ pendingReqs = EmptyMap

\* the Host header names a subdomain of the tunnel base domain
TunnelHost(host) == HasSuffix(StripPort(host), <<".">> \o TunnelDomain)

\* the Host header is one that handleRequest serves itself
ControlHost(host) == StripPort(host) \in {Domain, TunnelDomain, Localhost}

\* the Host header of a public request for the tunnel named n
HostOf(n) == n \o <<".">> \o TunnelDomain

\* session s, registered, sees a read error and returns in this step
Closes(s) == Registered(s) /\ sessPc'[s] = "closed"

\* session t, which asked for a name that is bound to no connection, is
\* given its name in this step
Reclaims(t) ==
    /\ sessPc[t] = "alloc" /\ sessPc'[t] = "ack"
    /\ Requested(t) # EmptyStr /\ ~Lookup(Requested(t)).ok

SentResponses ==
    UNION { { ClientAnswer(s, i) : i \in answered[s] } : s \in Sess }
    \cup { DecodeHttpResponse(rogue[k].msg.payload) : k \in 1 .. Len(rogue) }

\* C7 (end-to-end relay fidelity): a registration that asks for a name no
\* connection is bound to is given that name; the request frame of a relayed
\* call decodes to the method, path, headers and body of the public request;
\* and a relayed call renders the status, headers and body of a response
\* frame that a peer sent with the id of the call.
RelayFidelity ==
    /\ [][\A s \in Sess :
            (sessPc[s] = "alloc" /\ sessPc'[s] = "ack"
             /\ Requested(s) # EmptyStr /\ ~Lookup(Requested(s)).ok)
            => sessSub'[s] = Requested(s)]_vars
    /\ [](\A c \in Calls : callPc[c] = "wait" \/ outcome[c].kind \in {"relay", "timeout"} =>
            \E i \in 1 .. Len(written[callConn[c]]) :
               /\ written[callConn[c]][i].type = TypeHttpRequest
               /\ DecodeHttpRequest(written[callConn[c]][i].payload)
                     = [ID |-> reqID[c], Method |-> callReq[c].Method,
                        Path |-> callReq[c].Path, Headers |-> callReq[c].Headers,
                        Body |-> callReq[c].Body])
    /\ [](\A c \in Calls : outcome[c].kind = "relay" =>
            \E resp \in SentResponses :
               /\ resp.ID = reqID[c]
               /\ outcome[c].Status = resp.Status
               /\ outcome[c].Headers = resp.Headers
               /\ outcome[c].Body = resp.Body)

\* "a" was asked for and assigned, GET /health went to a.t, and the caller
\* has the 200 and the body of the local service
RelayFidelityWitness ==
    /\ Requested(1) = <<"a">> /\ sessSub[1] = <<"a">> /\ rogue = << >>
    /\ callHost[1] = <<"a", ".", "t">> /\ callReq[1].Method = "GET"
    /\ callPc[1] = "done" /\ outcome[1].kind = "relay"
    /\ outcome[1].Status = StatusOK /\ outcome[1].Body = "{ok:true}"

WriteFailureAsStated ==
    \A c \in Calls : outcome[c].kind = "writefail" => outcome[c].Status = StatusBadGateway

\* C9 as amended: a call that found a binding and whose write fails answers
\* 500 Internal Server Error at once: it goes on to the deferred slot
\* removal without waiting, and nothing it renders comes from its slot.
WriteFailure ==
    /\ [][\A c \in Calls :
            (callPc[c] = "write" /\ callPc'[c] # "write" /\ written' = written)
            => /\ callPc'[c] = "defer"
               /\ outcome'[c].Status = StatusInternalServerError
               /\ respCh'[c] = respCh[c]]_vars
    /\ [](\A c \in Calls : outcome[c].kind = "writefail" =>
            /\ outcome[c].Status = StatusInternalServerError
            /\ callConn[c] # NoSess /\ ~FrameWritten(c))

\* a call found the binding of a connection that broke, and its write failed
WriteFailureWitness ==
    \E c \in Calls :
       /\ outcome[c].kind = "writefail" /\ callPc[c] = "done"
       /\ connBroken[callConn[c]]

\* the first message of session s was a well-formed Register envelope
FirstIsRegister(s) == sessFirst[s].wellFormed /\ sessFirst[s].type = TypeRegister

\* C10 (handshake gate): a session gets past its first read only on a
\* well-formed Register envelope; a session whose first read failed, or
\* whose first message was no envelope or of another type, is closed, has
\* bound no name and has written no frame, and its closing step left the
\* registry and the connections as they were.
HandshakeGate ==
    /\ [](\A s \in Sess : sessPc[s] \notin {"idle", "closed"} => FirstIsRegister(s))
    /\ [](\A s \in Sess :
            (sessPc[s] # "idle" /\ ~FirstIsRegister(s))
            => /\ sessPc[s] = "closed"
               /\ sessSub[s] = EmptyStr
               /\ written[s] = << >>
               /\ \A n \in DOMAIN clients : clients[n] # s)
    /\ [][\A s \in Sess :
            (sessPc[s] = "idle" /\ sessPc'[s] = "closed")
            => UNCHANGED <<clients, written>>]_vars

\* a connection that opened with an HttpResponse frame, one whose first read
\* failed, and a registered one
HandshakeGateWitness ==
    \E s, t, u \in Sess :
       /\ sessPc[s] = "closed" /\ sessFirst[s].wellFormed
       /\ sessFirst[s].type = TypeHttpResponse
       /\ sessPc[t] = "closed" /\ sessFirst[t] = ReadFailed
       /\ Acked(u)

\* the tasks the client has spawned for the request frames of connection s
\* and that have returned
Returned(s) == answered[s] \cup dropped[s]

\* C11 as stated (the client answers every request): a task that the client
\* spawned for a request frame and that has returned has written a response
\* frame with the id of the request.
ClientAnswersEvery ==
    \A s \in Sess : \A i \in Returned(s) :
       /\ i \in answered[s]
       /\ ClientAnswer(s, i).ID = DecodeHttpRequest(written[s][i].payload).ID

\* the send of session s into the channel it found can complete: the buffer
\* has room, or the call that owns the channel has yet to receive from it
CanDeliver(s) ==
    \/ Len(respCh[sessCh[s]]) < ChanCap
    \/ callPc[sessCh[s]] \in {"write", "wait"}

\* C12 as stated (non-blocking deliver): the read loop of a session that
\* hands a response to a slot is never held there; whatever response frames
\* came before, its send completes and it returns to reading.
NonBlockingDeliver ==
    \A s \in Sess : sessPc[s] = "send" => CanDeliver(s)

\* the registry holds a binding to session s
Bound(s) == \E n \in DOMAIN clients : clients[n] = s

\* C13 as stated (disconnect liveness): once the connection of a registered
\* session is broken, the session eventually closes and the registry holds
\* no binding to it.
DisconnectLiveness ==
    \A s \in Sess :
       (Registered(s) /\ connBroken[s]) ~> (sessPc[s] = "closed" /\ ~Bound(s))

\* C14 as stated (heartbeat failure is fatal): once the heartbeat sender of
\* a session has stopped on a failed probe, the session is closed with its
\* binding removed, or at least its connection has been shut so that the
\* next read of the read loop fails.
HeartbeatFatal ==
    \A s \in Sess :
       pingPc[s] = "stopped" =>
          \/ sessPc[s] = "closed" /\ ~Bound(s)
          \/ connBroken[s]

\* the writers of end e whose write is in progress
Writing(e) == { w \in Writers : End(w) = e /\ wpc[w] = "writing" }

\* C15 (write serialization): at each end of a control connection at most
\* one write is in progress; the acknowledgement, the request frames and
\* the pings of the server, and the responses and pongs of the client, are
\* written by the holder of the mutex of their end; and the register frame,
\* the one write outside a mutex, is written while no other writer of the
\* client exists.
WriteSerialization ==
    /\ \A e \in Ends : Cardinality(Writing(e)) <= 1
    /\ \A w \in Writers \ {"register"} : wpc[w] = "writing" => mu[End(w)] = w
    /\ wpc["register"] = "writing" =>
          \A w \in ClientWriters \ {"register"} : wpc[w] = "idle"

\* a request frame is being written while the acknowledgement waits for
\* the mutex, and the client is writing the answer to an earlier request
WriteSerializationWitness ==
    /\ wpc["call2"] = "writing" /\ wpc["ack"] = "ready" /\ mu["server"] = "call2"
    /\ wpc["task1"] = "writing" /\ mu["client"] = "task1"

\* C16 as stated (strict payload decoding): no session is registered or bound
\* on a Register frame whose payload does not decode; nothing is sent into a
\* channel for an HttpResponse frame whose payload does not decode; and the
\* client handles no request frame whose payload does not decode.
StrictDecoding ==
    /\ \A s \in Sess :
          (Registered(s) \/ Bound(s)) => sessFirst[s].payload # JunkPayload
    /\ \A s \in Sess :
          sessPc[s] = "send" => sessMsg[s] # DecodeHttpResponse(JunkPayload)
    /\ \A c \in Calls : \A i \in 1 .. Len(respCh[c]) :
          respCh[c][i] # DecodeHttpResponse(JunkPayload)
    /\ \A s \in Sess : \A i \in Returned(s) : written[s][i].payload # JunkPayload

\* C17 as stated (cleanup removes only the closing session's own binding):
\* every session that is registered and has not closed is what the registry
\* returns for the name it was assigned.
OwnBinding ==
    \A s \in Sess :
       Registered(s) => Lookup(sessSub[s]) = [ok |-> TRUE, conn |-> s]

\* C18 as stated (ack precedes traffic): the first frame the server writes
\* to a connection is the RegisterAck, and every request frame on a
\* connection comes after the RegisterAck of that connection.
AckFirst ==
    \A s \in Sess :
       /\ written[s] # << >> => written[s][1].type = TypeRegisterResp
       /\ \A i \in 1 .. Len(written[s]) :
             written[s][i].type = TypeHttpRequest =>
                \E j \in 1 .. (i - 1) : written[s][j].type = TypeRegisterResp

\* the HttpResponse payloads that the peer of connection s has sent
SentOn(s) ==
    { ClientAnswer(s, i) : i \in answered[s] }
    \cup { DecodeHttpResponse(rogue[k].msg.payload) :
              k \in { j \in 1 .. Len(rogue) : rogue[j].conn = s } }

\* C19 as stated (cross-client isolation): a session sends a response only
\* into the channel of a call whose request went to the session's own
\* connection, and what a call renders was sent by the peer of the
\* connection its request went to.
Isolation ==
    /\ \A s \in Sess : sessPc[s] = "send" => callConn[sessCh[s]] = s
    /\ \A c \in Calls : outcome[c].kind = "relay" =>
          \E resp \in SentOn(callConn[c]) :
             /\ resp.ID = reqID[c]
             /\ outcome[c].Status = resp.Status
             /\ outcome[c].Headers = resp.Headers
             /\ outcome[c].Body = resp.Body

\* C20 as stated (every assigned name is routable): a public request whose
\* Host is the assigned name of a registered session followed by the tunnel
\* base domain is relayed to the connection the registry holds for that name.
Routable ==
    \A s \in Sess : \A r \in Requests :
       (Registered(s) /\ Lookup(sessSub[s]).ok) =>
          /\ ProxyOrAnswer(HostOf(sessSub[s]), r.Path).relayed
          /\ ProxyOrAnswer(HostOf(sessSub[s]), r.Path).conn = Lookup(sessSub[s]).conn

====
